---- MODULE Spec2Model ----
(***************************************************************************)
(* The /report command of src/cmds/core/report.py (ReportCog.report): one  *)
(* invocation of the command, from the deferred response to the return of  *)
(* the coroutine.  Every await is a step of its own and may raise: pc is   *)
(* the await the coroutine is suspended at.  An exception of ctx.defer or  *)
(* ctx.respond, awaited outside the try block or inside an except clause,  *)
(* leaves the command.  A message dispatched while no bot.wait_for is      *)
(* pending is dropped.  Text is a sequence of one-character strings.       *)
(* Spec is that invocation with the timer of wait_for left free; SpecText  *)
(* runs it on several report texts, SpecTimed with the 60-unit clock,      *)
(* SpecSanitize applies sanitize_message alone, and SpecTwo sets two       *)
(* invocations side by side.                                               *)
(***************************************************************************)
EXTENDS Integers, Sequences, FiniteSets, TLC

VARIABLES
    pc,          \* position of the coroutine
    modFound,    \* discord.utils.get(...) returned a channel (line 51)
    dmOpen,      \* ctx.author.create_dm() returned a channel (line 68)
    images,      \* the list `images` (line 77)
    msg,         \* the message last returned by bot.wait_for (line 92)
    exit,        \* which break left the while loop: "none", "done", "timeout"
    awaits,      \* number of bot.wait_for calls issued
    dispatched,  \* number of message events dispatched during the session
    sent,        \* the calls of ctx.defer / ctx.respond, dm_channel.send and
                 \* mod_channel.send, in the order made, with their outcome
    files,       \* the list `files` built from images (line 150)
    exc,         \* the exception caught by the outer try, "none" if none
    message,     \* the parameter `message` of the command (line 40)
    sanitized,   \* sanitized_message (line 45)
    again,       \* sanitize_message applied to sanitized_message
    elapsed,     \* time units since the pending bot.wait_for was issued
    sess,        \* two invocations side by side: the state of each
    cool,        \* per user, time units since the last invocation (capped)
    evts         \* number of message events dispatched to the two sessions

\* The text of the report, raw and sanitized.
textVars == <<message, sanitized, again>>
\* The two invocations side by side.
twoVars == <<sess, cool, evts>>

vars == <<pc, modFound, dmOpen, images, msg, exit, awaits, dispatched,
          sent, files, exc, textVars, elapsed, twoVars>>

----------------------------------------------------------------------------
\* Bounds of the model.

\* Largest number of message events dispatched during one session.
MaxMsgs == 2
\* Largest number of attachments one message carries.
MaxAtt == 2

----------------------------------------------------------------------------
\* Text.

UpperChars == <<"A","B","C","D","E","F","G","H","I","J","K","L","M",
                "N","O","P","Q","R","S","T","U","V","W","X","Y","Z">>
LowerChars == <<"a","b","c","d","e","f","g","h","i","j","k","l","m",
                "n","o","p","q","r","s","t","u","v","w","x","y","z">>

\* str.lower() on one character
LowerChar(c) ==
    IF \E i \in 1..Len(UpperChars) : UpperChars[i] = c
    THEN LowerChars[CHOOSE i \in 1..Len(UpperChars) : UpperChars[i] = c]
    ELSE c

\* The characters of the texts of the model.
Chars == {UpperChars[i] : i \in 1..Len(UpperChars)} \cup {LowerChars[i] : i \in 1..Len(LowerChars)}
            \cup {".", " ", "@", "[", "]"}

\* LowerChar, tabulated.
LowerTable == [c \in Chars |-> LowerChar(c)]

\* str.lower()
Lower(s) == [i \in 1..Len(s) |-> LowerTable[s[i]]]

\* str.endswith(suffix)
EndsWith(s, suffix) ==
    /\ Len(s) >= Len(suffix)
    /\ SubSeq(s, Len(s) - Len(suffix) + 1, Len(s)) = suffix

\* The literal "done" of lines 85 and 94.
DoneToken == <<"d","o","n","e">>

\* The extension list of line 101.
Extensions == { <<"p","n","g">>, <<"j","p","g">>, <<"j","p","e","g">>, <<"g","i","f">> }

----------------------------------------------------------------------------
\* sanitize_message, lines 17-23.

\* The patterns of lines 20 and 22, and what replaces them.
EveryoneToken == <<"@","e","v","e","r","y","o","n","e">>
HereToken == <<"@","h","e","r","e">>
EveryoneReplacement == <<"[","a","t"," ","e","v","e","r","y","o","n","e","]">>
HereReplacement == <<"[","a","t"," ","h","e","r","e","]">>

\* The pattern matched without flags=re.IGNORECASE.
MatchesCaseSensitive(s, pattern) ==
    /\ Len(s) >= Len(pattern)
    /\ SubSeq(s, 1, Len(pattern)) = pattern
\* A literal pattern matches at the start of s, with flags=re.IGNORECASE.
Matches(s, pattern) ==
    /\ Len(s) >= Len(pattern)
    /\ Lower(SubSeq(s, 1, Len(pattern))) = pattern

\* re.sub(pattern, repl, s, flags=re.IGNORECASE) for a literal pattern: the
\* leftmost occurrences, not overlapping, replaced in one scan.
RECURSIVE ReSub(_, _, _)
ReSub(pattern, repl, s) ==
    IF s = <<>> THEN <<>>
    ELSE IF Matches(s, pattern)
         THEN repl \o ReSub(pattern, repl, SubSeq(s, Len(pattern) + 1, Len(s)))
         ELSE <<Head(s)>> \o ReSub(pattern, repl, Tail(s))

\* lines 20-23
sanitize_message(m) ==
    ReSub(HereToken, HereReplacement, ReSub(EveryoneToken, EveryoneReplacement, m))

\* Largest number of pieces a text is put together from.
MaxParts == 3
\* The pieces: the tokens in several cases, whole and cut in two, the
\* replacement texts cut in two, and plain text.
Parts == { <<"@">>,
           <<"@","E","v","e","r","y">>, <<"o","N","e">>,
           <<"@","h","E">>, <<"R","e">>,
           <<"@","E","V","E","R","Y","O","N","E">>,
           <<"@","h","e","r","e">>,
           <<"[","a","t"," ">>, <<"h","e","r","e","]">>,
           <<"x"," ">> }
RECURSIVE TextsOf(_)
TextsOf(n) ==
    IF n = 0 THEN {<<>>}
    ELSE {part \o t : part \in Parts, t \in TextsOf(n - 1)}
\* The texts sanitize_message is applied to: not empty, as the option
\* `message` is required.
Texts == UNION {TextsOf(n) : n \in 1..MaxParts}

\* A report naming both mentions, and the reports of the command.
ReportText == <<"@","E","v","e","r","y","o","N","e"," ","@","H","E","R","E">>
RequestTexts == {ReportText, <<"h","i">>}

----------------------------------------------------------------------------
\* The messages the gateway can dispatch while the command waits.

Reporter == "reporter"
Authors == {Reporter, "other"}
DmChannel == "dm"
Channels == {DmChannel, "guild"}

\* Message texts: the token, the token in another case, other text.
Contents == { DoneToken, <<"D","o","N","e">>, <<"h","i">> }

\* The attachments a reporter may upload, by their file names:
\* a.png, B.JPEG, c.txt.
FileNames == << <<"a",".","p","n","g">>, <<"B",".","J","P","E","G">>, <<"c",".","t","x","t">> >>
Attachments == 1..Len(FileNames)

\* attachment.filename
Filename(att) == FileNames[att]

\* Attachment lists of at most n items.
AttLists(n) == UNION { [1..k -> Attachments] : k \in 0..n }

Messages ==
    [author : Authors, channel : Channels, content : Contents, attachments : AttLists(MaxAtt)]

\* No message received yet.
NoMsg == [author |-> "none", channel |-> "none", content |-> <<>>, attachments |-> <<>>]

\* Outcomes of an awaited call of the transport: it returns, or raises
\* discord.Forbidden, or another Exception.
CallResults == {"ok", "forbidden", "error"}

\* Outcomes of a call made inside the inner try (lines 90-114), where an
\* asyncio.TimeoutError is handled apart from the other exceptions.
LoopCallResults == CallResults \cup {"timeout"}

----------------------------------------------------------------------------
\* The pure parts of the handler.

\* check(msg), lines 79-87, closed over ctx.author and dm_channel
CheckOf(author, channel, m) ==
    /\ m.author = author
    /\ m.channel = channel
    /\ (Len(m.attachments) > 0 \/ Lower(m.content) = DoneToken)

\* check(msg) of the invocation by Reporter
check(m) == CheckOf(Reporter, DmChannel, m)

\* Line 94 comparing without lower().
IsDoneCaseSensitive(m) == m.content = DoneToken

\* msg.content.lower() == "done", line 94
IsDone(m) == Lower(m.content) = DoneToken

\* Line 101 accepting every file.
IsAcceptableAny(att) == TRUE

\* any(attachment.filename.lower().endswith(ext) for ext in [...]), line 101
IsAcceptable(att) == \E ext \in Extensions : EndsWith(Lower(Filename(att)), ext)

\* The list comprehension of lines 98-102: the acceptable items, in order.
RECURSIVE ValidImages(_)
ValidImages(atts) ==
    IF atts = <<>> THEN <<>>
    ELSE (IF IsAcceptable(Head(atts)) THEN <<Head(atts)>> ELSE <<>>) \o ValidImages(Tail(atts))

\* `not valid_images and msg.attachments`, line 104
IsRejected(m) == ValidImages(m.attachments) = <<>> /\ m.attachments # <<>>

\* Attachment.to_file(): a discord.File made of the attachment.
ToFile(att) == [attachment |-> att]

\* The comprehension of line 150 running over images from its end.
NextImageFromEnd(imgs, fs) == imgs[Len(imgs) - Len(fs)]
\* The image the comprehension of line 150 awaits next, fs being the files
\* made so far.
NextImage(imgs, fs) == imgs[Len(fs) + 1]

\* The exception swallowed where it is raised: the handler goes on to send
\* the files.
CatchAndGoOn(kind) == "send_files"

\* The outer try handling discord.Forbidden like any other exception.
CatchAllGeneric(kind) == "except_exception"

\* The outer try without its `except Exception` clause: the exception leaves
\* the command.
CatchOnlyForbidden(kind) == IF kind = "forbidden" THEN "except_forbidden" ELSE "raised"

\* The except clauses of the outer try, lines 158 and 164: where an exception
\* raised inside the try block is handled.
Catch(kind) == IF kind = "forbidden" THEN "except_forbidden" ELSE "except_exception"

\* Records of the calls made: the receiver ("ctx", "dm", "mod"), which message,
\* the count it states, the files it carries, and whether the call returned.
Call(to, kind, n, fs, res) ==
    [to |-> to, kind |-> kind, n |-> n, files |-> fs, res |-> res, text |-> <<>>]

\* ctx.defer / ctx.respond, lines 48, 54, 61, 159, 166
CtxSend(kind, res) == Call("ctx", kind, 0, <<>>, res)

\* Where an exception goes that is raised outside the try block (lines 48,
\* 54, 61) or inside one of its except clauses (lines 159, 166): it leaves
\* report().
Propagate(kind) == "raised"

\* dm_channel.send, lines 69, 105, 111, 118, 153
DmSend(kind, n, res) == Call("dm", kind, n, <<>>, res)

\* The content field given the raw text of the command.
EmbedContentRaw(raw, clean) == raw
\* value=sanitized_message, line 130
EmbedContent(raw, clean) == clean

\* The embed of lines 124-143 as sent at line 146: its content field and the
\* evidence count it states.
Embed(content, imgs, res) ==
    [Call("mod", "embed", Len(imgs), <<>>, res) EXCEPT !.text = content]

\* mod_channel.send(files=files), line 151
Bundle(fs, res) == Call("mod", "files", Len(fs), fs, res)

\* Line 53 never taking the branch.
NotFoundNever(found) == FALSE

\* `if not mod_channel:` of line 53
NotFound(found) == ~found

\* images = valid_images instead of images.extend(valid_images).
ExtendReplace(imgs, valid) == valid
\* images.extend(valid_images): line 110
Extend(imgs, valid) == imgs \o valid

\* Line 112 stating the running total.
AckCountTotal(valid, imgs) == Len(imgs)

\* len(valid_images) of line 112: the count the acknowledgement states. At
\* that line valid_images is the batch and images already holds it.
AckCount(valid, imgs) == Len(valid)

\* Line 117 without its condition.
NoticeAlways(imgs) == TRUE

\* `if images:` of line 117: the timeout notice is due.
NoticeDue(imgs) == imgs # <<>>

\* asyncio.TimeoutError caught at line 116: the notice of line 118 is
\* awaited when it is due, else line 121 breaks and the embed is sent.
AfterTimeout(imgs) == IF NoticeDue(imgs) THEN "except_timeout" ELSE "deliver"

\* The except clause of the inner try, line 116, before the outer ones.
InnerCatch(kind, imgs) == IF kind = "timeout" THEN AfterTimeout(imgs) ELSE Catch(kind)

\* The exit once an exception of this kind was raised in the inner try:
\* the break of line 121 is reached at once when no notice is due.
ExitAfter(kind, imgs, ex) ==
    IF kind = "timeout" /\ ~NoticeDue(imgs) THEN "timeout" ELSE ex

\* The comprehension of line 150 with fs built so far: the next image is
\* awaited, or the list is complete and line 151 sends it.
AfterFile(imgs, fs) == IF Len(fs) = Len(imgs) THEN "send_files" ELSE "to_file"

\* Line 149 without its condition.
AfterEmbedAlways(imgs) == AfterFile(imgs, <<>>)

\* Lines 149-151 never taken.
AfterEmbedNever(imgs) == "confirm"

\* `if images:` of line 149: where the handler goes after the embed is sent.
AfterEmbed(imgs) == IF imgs # <<>> THEN "to_file" ELSE "confirm"

\* The messages by what wait_for and the loop body do with them (lines 92-114):
\* not returned by wait_for; the break of line 95; the rejection of lines
\* 104-108; the collection of lines 110-114.
Ignored == {m \in Messages : ~check(m)}
Completing == {m \in Messages : check(m) /\ IsDone(m)}
Rejectable == {m \in Messages : check(m) /\ ~IsDone(m) /\ IsRejected(m)}
Acceptable == {m \in Messages : check(m) /\ ~IsDone(m) /\ ~IsRejected(m)}

\* The positions where the coroutine is suspended in an await other than
\* bot.wait_for: lines 48, 54/61, 68, 69, 105, 111, 118 (when the notice is
\* due), 146, 150, 151, 153, 159, 166.
Suspended == {"defer", "resolved", "create_dm", "prompt", "send_reject", "send_ack",
              "except_timeout", "deliver", "to_file", "send_files", "confirm",
              "except_forbidden", "except_exception"}

----------------------------------------------------------------------------
\* timeout=60.0, line 92
Window == 60
\* @cooldown(1, 10, commands.BucketType.user), line 36
Cooldown == 10

\* The two invocations looked at side by side.
Sessions == 1..2
\* An invocation not yet made.
Idle == [author |-> "none", state |-> "idle", images |-> <<>>, exit |-> "none",
         taken |-> <<>>]
\* No invocation made yet, and no cooldown running.
NoSessions == [s \in Sessions |-> Idle]
NoCool == [u \in Authors |-> Cooldown]

InitWith(texts) ==
    /\ pc = "start"
    /\ modFound \in BOOLEAN
    /\ dmOpen = FALSE
    /\ images = <<>>
    /\ msg = NoMsg
    /\ exit = "none"
    /\ awaits = 0
    /\ dispatched = 0
    /\ sent = <<>>
    /\ files = <<>>
    /\ exc = "none"
    /\ message \in texts
    /\ sanitized = <<>>
    /\ again = <<>>
    /\ elapsed = 0
    /\ sess = NoSessions
    /\ cool = NoCool
    /\ evts = 0

\* The command is invoked with one text that names both mentions.
Init == InitWith({ReportText})

\* The command is invoked: sanitize_message(message), line 45, and the
\* coroutine runs to the await of ctx.defer, line 48
Start ==
    /\ pc = "start"
    /\ sanitized' = sanitize_message(message)
    /\ pc' = "defer"
    /\ UNCHANGED <<modFound, dmOpen, images, msg, exit, awaits, dispatched, sent, files, exc>>
    /\ UNCHANGED <<message, again, elapsed, twoVars>>

\* await ctx.defer(ephemeral=True) completes, line 48; then line 51 and the
\* await of ctx.respond
Defer(res) ==
    /\ pc = "defer"
    /\ sent' = Append(sent, CtxSend("defer", res))
    /\ IF res = "ok"
       THEN /\ pc' = "resolved"
            /\ exc' = exc
       ELSE /\ pc' = Propagate(res)
            /\ exc' = exc
    /\ UNCHANGED <<modFound, dmOpen, images, msg, exit, awaits, dispatched, files>>
    /\ UNCHANGED <<textVars, elapsed, twoVars>>

\* lines 53-58: no moderator channel
RespondNotFound(res) ==
    /\ pc = "resolved"
    /\ NotFound(modFound)
    /\ sent' = Append(sent, CtxSend("config_error", res))
    /\ IF res = "ok"
       THEN /\ pc' = "returned"
            /\ exc' = exc
       ELSE /\ pc' = Propagate(res)
            /\ exc' = exc
    /\ UNCHANGED <<modFound, dmOpen, images, msg, exit, awaits, dispatched, files>>
    /\ UNCHANGED <<textVars, elapsed, twoVars>>

\* lines 61-64
RespondNotify(res) ==
    /\ pc = "resolved"
    /\ ~NotFound(modFound)
    /\ sent' = Append(sent, CtxSend("dm_notice", res))
    /\ IF res = "ok"
       THEN /\ pc' = "create_dm"
            /\ exc' = exc
       ELSE /\ pc' = Propagate(res)
            /\ exc' = exc
    /\ UNCHANGED <<modFound, dmOpen, images, msg, exit, awaits, dispatched, files>>
    /\ UNCHANGED <<textVars, elapsed, twoVars>>

\* dm_channel = await ctx.author.create_dm(), line 68
CreateDm(res) ==
    /\ pc = "create_dm"
    /\ IF res = "ok"
       THEN /\ dmOpen' = TRUE
            /\ pc' = "prompt"
            /\ exc' = exc
       ELSE /\ dmOpen' = dmOpen
            /\ pc' = Catch(res)
            /\ exc' = res
    /\ UNCHANGED <<modFound, images, msg, exit, awaits, dispatched, sent, files>>
    /\ UNCHANGED <<textVars, elapsed, twoVars>>

\* lines 69-77, and the first bot.wait_for of line 92
SendPrompt(res) ==
    /\ pc = "prompt"
    /\ sent' = Append(sent, DmSend("prompt", 0, res))
    /\ IF res = "ok"
       THEN /\ pc' = "wait"
            /\ awaits' = awaits + 1
            /\ exc' = exc
       ELSE /\ pc' = Catch(res)
            /\ awaits' = awaits
            /\ exc' = res
    /\ images' = <<>>
    /\ UNCHANGED <<modFound, dmOpen, msg, exit, dispatched, files>>
    /\ elapsed' = 0
    /\ UNCHANGED <<textVars, twoVars>>

\* A message event for which check returns False: wait_for keeps waiting.
MsgIgnored ==
    /\ pc = "wait"
    /\ elapsed < Window
    /\ dispatched < MaxMsgs
    /\ Ignored # {}
    /\ dispatched' = dispatched + 1
    /\ UNCHANGED <<pc, modFound, dmOpen, images, msg, exit, awaits, sent, files, exc>>
    /\ UNCHANGED <<textVars, elapsed, twoVars>>

\* wait_for returns the done message: lines 92-95
MsgDone ==
    /\ pc = "wait"
    /\ elapsed < Window
    /\ dispatched < MaxMsgs
    /\ \E m \in Completing : msg' = m
    /\ dispatched' = dispatched + 1
    /\ exit' = "done"
    /\ pc' = "deliver"
    /\ UNCHANGED <<modFound, dmOpen, images, awaits, sent, files, exc>>
    /\ elapsed' = 0
    /\ UNCHANGED <<textVars, twoVars>>

\* wait_for returns a message none of whose attachments is valid: lines
\* 92-105, up to the await of the rejection
MsgRejected ==
    /\ pc = "wait"
    /\ elapsed < Window
    /\ dispatched < MaxMsgs
    /\ \E m \in Rejectable : msg' = m
    /\ dispatched' = dispatched + 1
    /\ pc' = "send_reject"
    /\ elapsed' = 0
    /\ UNCHANGED <<modFound, dmOpen, images, exit, awaits, sent, files, exc>>
    /\ UNCHANGED <<textVars, twoVars>>

\* The rejection of lines 105-108 completes: `continue`, and the next
\* bot.wait_for of line 92
RejectSent(res) ==
    /\ pc = "send_reject"
    /\ sent' = Append(sent, DmSend("reject", 0, res))
    /\ IF res = "ok"
       THEN /\ pc' = "wait"
            /\ awaits' = awaits + 1
            /\ exc' = exc
       ELSE /\ pc' = InnerCatch(res, images)
            /\ awaits' = awaits
            /\ exc' = IF res = "timeout" THEN exc ELSE res
    /\ exit' = IF res = "ok" THEN exit ELSE ExitAfter(res, images, exit)
    /\ UNCHANGED <<modFound, dmOpen, images, msg, dispatched, files>>
    /\ UNCHANGED <<textVars, elapsed, twoVars>>

\* wait_for returns a message with attachments, some valid: lines 92-111,
\* up to the await of the acknowledgement
MsgAccepted ==
    /\ pc = "wait"
    /\ elapsed < Window
    /\ dispatched < MaxMsgs
    /\ \E m \in Acceptable : msg' = m
    /\ dispatched' = dispatched + 1
    /\ images' = Extend(images, ValidImages(msg'.attachments))
    /\ pc' = "send_ack"
    /\ elapsed' = 0
    /\ UNCHANGED <<modFound, dmOpen, exit, awaits, sent, files, exc>>
    /\ UNCHANGED <<textVars, twoVars>>

\* The acknowledgement of lines 111-114 completes, and the next
\* bot.wait_for of line 92
AckSent(res) ==
    /\ pc = "send_ack"
    /\ sent' = Append(sent, DmSend("ack", AckCount(ValidImages(msg.attachments), images), res))
    /\ IF res = "ok"
       THEN /\ pc' = "wait"
            /\ awaits' = awaits + 1
            /\ exc' = exc
       ELSE /\ pc' = InnerCatch(res, images)
            /\ awaits' = awaits
            /\ exc' = IF res = "timeout" THEN exc ELSE res
    /\ exit' = IF res = "ok" THEN exit ELSE ExitAfter(res, images, exit)
    /\ UNCHANGED <<modFound, dmOpen, images, msg, dispatched, files>>
    /\ UNCHANGED <<textVars, elapsed, twoVars>>

\* A message event while the coroutine is suspended in another await: no
\* bot.wait_for is pending, check is not called and the message is lost to
\* the session.
MsgDropped ==
    /\ pc \in Suspended
    /\ dispatched < MaxMsgs
    /\ Messages # {}
    /\ dispatched' = dispatched + 1
    /\ UNCHANGED <<pc, modFound, dmOpen, images, msg, exit, awaits, sent, files, exc>>
    /\ UNCHANGED <<textVars, elapsed, twoVars>>

\* wait_for raises asyncio.TimeoutError: lines 116-121, up to the await of
\* the notice or, with no image, to the await of the embed
WaitTimeout ==
    /\ pc = "wait"
    /\ pc' = AfterTimeout(images)
    /\ exit' = ExitAfter("timeout", images, exit)
    /\ UNCHANGED <<modFound, dmOpen, images, msg, awaits, dispatched, sent, files, exc>>
    /\ UNCHANGED <<textVars, elapsed, twoVars>>

\* The notice of line 118 completes, and the break of line 121
TimeoutNotice(res) ==
    /\ pc = "except_timeout"
    /\ NoticeDue(images)
    /\ sent' = Append(sent, DmSend("timeout_notice", 0, res))
    /\ IF res = "ok"
       THEN /\ exit' = "timeout"
            /\ pc' = "deliver"
            /\ exc' = exc
       ELSE /\ exit' = exit
            /\ pc' = Catch(res)
            /\ exc' = res
    /\ UNCHANGED <<modFound, dmOpen, images, msg, awaits, dispatched, files>>
    /\ UNCHANGED <<textVars, elapsed, twoVars>>

\* lines 123-149: the embed is built and sent
SendEmbed(res) ==
    /\ pc = "deliver"
    /\ sent' = Append(sent, Embed(EmbedContent(message, sanitized), images, res))
    /\ IF res = "ok"
       THEN /\ pc' = AfterEmbed(images)
            /\ exc' = exc
       ELSE /\ pc' = Catch(res)
            /\ exc' = res
    /\ UNCHANGED <<modFound, dmOpen, images, msg, exit, awaits, dispatched, files>>
    /\ UNCHANGED <<textVars, elapsed, twoVars>>

\* One await img.to_file() of the comprehension of line 150 completes: the
\* file joins the list, and the next image is awaited or the list is done
BuildFile(res) ==
    /\ pc = "to_file"
    /\ IF res = "ok"
       THEN /\ files' = Append(files, ToFile(NextImage(images, files)))
            /\ pc' = AfterFile(images, files')
            /\ exc' = exc
       ELSE /\ files' = files
            /\ pc' = Catch(res)
            /\ exc' = res
    /\ UNCHANGED <<modFound, dmOpen, images, msg, exit, awaits, dispatched, sent>>
    /\ UNCHANGED <<textVars, elapsed, twoVars>>

\* await mod_channel.send(files=files), line 151
SendFiles(res) ==
    /\ pc = "send_files"
    /\ sent' = Append(sent, Bundle(files, res))
    /\ IF res = "ok"
       THEN /\ pc' = "confirm"
            /\ exc' = exc
       ELSE /\ pc' = Catch(res)
            /\ exc' = res
    /\ UNCHANGED <<modFound, dmOpen, images, msg, exit, awaits, dispatched, files>>
    /\ UNCHANGED <<textVars, elapsed, twoVars>>

\* lines 153-156: the confirmation, stating the count when there are images
SendConfirm(res) ==
    /\ pc = "confirm"
    /\ sent' = Append(sent, DmSend("success", Len(images), res))
    /\ IF res = "ok"
       THEN /\ pc' = "returned"
            /\ exc' = exc
       ELSE /\ pc' = Catch(res)
            /\ exc' = res
    /\ UNCHANGED <<modFound, dmOpen, images, msg, exit, awaits, dispatched, files>>
    /\ UNCHANGED <<textVars, elapsed, twoVars>>

\* except discord.Forbidden, lines 158-163
HandleForbidden(res) ==
    /\ pc = "except_forbidden"
    /\ sent' = Append(sent, CtxSend("permission_error", res))
    /\ IF res = "ok"
       THEN /\ pc' = "returned"
            /\ exc' = exc
       ELSE /\ pc' = Propagate(res)
            /\ exc' = exc
    /\ UNCHANGED <<modFound, dmOpen, images, msg, exit, awaits, dispatched, files>>
    /\ UNCHANGED <<textVars, elapsed, twoVars>>

\* except Exception, lines 164-169
HandleException(res) ==
    /\ pc = "except_exception"
    /\ sent' = Append(sent, CtxSend("generic_error", res))
    /\ IF res = "ok"
       THEN /\ pc' = "returned"
            /\ exc' = exc
       ELSE /\ pc' = Propagate(res)
            /\ exc' = exc
    /\ UNCHANGED <<modFound, dmOpen, images, msg, exit, awaits, dispatched, files>>
    /\ UNCHANGED <<textVars, elapsed, twoVars>>

Next ==
    \/ Start
    \/ \E res \in CallResults : Defer(res)
    \/ \E res \in CallResults : RespondNotFound(res)
    \/ \E res \in CallResults : RespondNotify(res)
    \/ \E res \in CallResults : CreateDm(res)
    \/ \E res \in CallResults : SendPrompt(res)
    \/ MsgIgnored
    \/ MsgDone
    \/ MsgRejected
    \/ \E res \in LoopCallResults : RejectSent(res)
    \/ MsgAccepted
    \/ \E res \in LoopCallResults : AckSent(res)
    \/ MsgDropped
    \/ WaitTimeout
    \/ \E res \in CallResults : TimeoutNotice(res)
    \/ \E res \in CallResults : SendEmbed(res)
    \/ \E res \in CallResults : BuildFile(res)
    \/ \E res \in CallResults : SendFiles(res)
    \/ \E res \in CallResults : SendConfirm(res)
    \/ \E res \in CallResults : HandleForbidden(res)
    \/ \E res \in CallResults : HandleException(res)

Spec == Init /\ [][Next]_vars

\* The command invoked with each text of RequestTexts.
InitText == InitWith(RequestTexts)
SpecText == InitText /\ [][Next]_vars

----------------------------------------------------------------------------
\* The session with the clock of bot.wait_for(..., timeout=60.0): time passes
\* while a wait_for is pending, and asyncio.TimeoutError is raised by it when
\* the window has elapsed, where Spec lets it be raised at any time.

\* One time unit passes while the command waits.
Tick ==
    /\ pc = "wait"
    /\ elapsed < Window
    /\ elapsed' = elapsed + 1
    /\ UNCHANGED <<pc, modFound, dmOpen, images, msg, exit, awaits, dispatched,
                   sent, files, exc, textVars, twoVars>>

\* wait_for raises asyncio.TimeoutError after timeout=60.0: lines 92, 116
TimedOut ==
    /\ pc = "wait"
    /\ elapsed = Window
    /\ pc' = AfterTimeout(images)
    /\ exit' = ExitAfter("timeout", images, exit)
    /\ elapsed' = 0
    /\ UNCHANGED <<modFound, dmOpen, images, msg, awaits, dispatched,
                   sent, files, exc, textVars, twoVars>>

NextTimed ==
    \/ Start
    \/ \E res \in CallResults : Defer(res)
    \/ \E res \in CallResults : RespondNotFound(res)
    \/ \E res \in CallResults : RespondNotify(res)
    \/ \E res \in CallResults : CreateDm(res)
    \/ \E res \in CallResults : SendPrompt(res)
    \/ Tick
    \/ MsgIgnored
    \/ MsgDone
    \/ MsgRejected
    \/ \E res \in LoopCallResults : RejectSent(res)
    \/ MsgAccepted
    \/ \E res \in LoopCallResults : AckSent(res)
    \/ MsgDropped
    \/ TimedOut
    \/ \E res \in CallResults : TimeoutNotice(res)
    \/ \E res \in CallResults : SendEmbed(res)
    \/ \E res \in CallResults : BuildFile(res)
    \/ \E res \in CallResults : SendFiles(res)
    \/ \E res \in CallResults : SendConfirm(res)
    \/ \E res \in CallResults : HandleForbidden(res)
    \/ \E res \in CallResults : HandleException(res)

SpecTimed == Init /\ [][NextTimed]_vars

----------------------------------------------------------------------------
\* Two invocations of the command side by side on the one event loop, each
\* from its invocation to the end of its while loop, await by await.  The
\* timer of wait_for may fire at any time; the cooldown of line 36 is timed
\* and starts at the invocation.  A message event is handed to every pending
\* bot.wait_for whose check accepts it; a session suspended in another await
\* does not see it.

\* The private channel create_dm returns for a user: one per user.
DmOf(user) == IF user = Reporter THEN DmChannel ELSE "dm_other"

\* The messages dispatched while the two invocations run.
TwoMessages ==
    [author : Authors, channel : {DmOf(u) : u \in Authors} \cup {"guild"},
     content : Contents, attachments : AttLists(MaxAtt)]

\* The attachments of the message of event e, as held in images.
Items(e, atts) == [i \in 1..Len(atts) |-> [evt |-> e, att |-> atts[i]]]

\* Lines 94-111 for a session whose wait_for returned m, the message of
\* event e: up to the break or to the await of the answer.
Received(r, m, e) ==
    IF IsDone(m)
    THEN [r EXCEPT !.state = "closed", !.exit = "done", !.taken = Append(@, e)]
    ELSE IF IsRejected(m)
         THEN [r EXCEPT !.state = "send_reject", !.taken = Append(@, e)]
         ELSE [r EXCEPT !.state = "send_ack",
                        !.images = Extend(@, Items(e, ValidImages(m.attachments))),
                        !.taken = Append(@, e)]

\* asyncio.TimeoutError inside the inner try, lines 116-121: the notice is
\* awaited when images is not empty, else the loop is left at once.
TimedOutSession(r) ==
    IF NoticeDue(r.images)
    THEN [r EXCEPT !.state = "send_notice"]
    ELSE [r EXCEPT !.state = "closed", !.exit = "timeout"]

\* The awaits of a session other than bot.wait_for, by the line suspended
\* at: 48, 61, 68, 69, 105, 111, 118.
TwoAwaits == {"defer", "respond", "create_dm", "prompt", "send_reject", "send_ack",
              "send_notice"}

\* Where a session goes when the call it awaits returns.
AfterAwait(state) ==
    CASE state = "defer" -> "respond"
      [] state = "respond" -> "create_dm"
      [] state = "create_dm" -> "prompt"
      [] state = "prompt" -> "wait"
      [] state = "send_reject" -> "wait"
      [] state = "send_ack" -> "wait"
      [] state = "send_notice" -> "closed"

\* A session whose awaited call raised kind: outside the try block the
\* exception leaves report(); inside, the except clauses of lines 116, 158
\* and 164 take it, and the while loop is not resumed.
Failed(r, kind) ==
    IF r.state \in {"defer", "respond"}
    THEN [r EXCEPT !.state = "failed", !.exit = Propagate(kind)]
    ELSE IF r.state \in {"send_reject", "send_ack"} /\ InnerCatch(kind, r.images) # Catch(kind)
         THEN TimedOutSession(r)
         ELSE [r EXCEPT !.state = "failed", !.exit = Catch(kind)]

InitTwo ==
    /\ InitWith({ReportText})
    /\ modFound = TRUE

\* The command is invoked by a user whose cooldown has run out (line 36):
\* the coroutine runs to the await of line 48.
Invoke(s, user) ==
    /\ sess[s].state = "idle"
    /\ \A t \in Sessions : t < s => sess[t].state # "idle"
    /\ cool[user] = Cooldown
    /\ sess' = [sess EXCEPT ![s] = [Idle EXCEPT !.author = user, !.state = "defer"]]
    /\ cool' = [cool EXCEPT ![user] = 0]
    /\ UNCHANGED <<pc, modFound, dmOpen, images, msg, exit, awaits, dispatched,
                   sent, files, exc, textVars, elapsed, evts>>

\* One time unit passes on the cooldowns, which are read by the next
\* invocation only: the clock is followed while one can still be made.
CoolTick ==
    /\ \E s \in Sessions : sess[s].state = "idle"
    /\ \E u \in Authors : cool[u] < Cooldown
    /\ cool' = [u \in Authors |-> IF cool[u] < Cooldown THEN cool[u] + 1 ELSE cool[u]]
    /\ UNCHANGED <<pc, modFound, dmOpen, images, msg, exit, awaits, dispatched,
                   sent, files, exc, textVars, elapsed, sess, evts>>

\* The call a session awaits completes (lines 48, 61, 68, 69, 105, 111,
\* 118): the coroutine runs to its next await, or the exception is handled.
AwaitDone(s, res) ==
    /\ sess[s].state \in TwoAwaits
    /\ res = "timeout" => sess[s].state \in {"send_reject", "send_ack"}
    /\ sess' = [sess EXCEPT ![s] =
                   IF res = "ok"
                   THEN [sess[s] EXCEPT
                            !.state = AfterAwait(sess[s].state),
                            !.exit = IF sess[s].state = "send_notice"
                                     THEN "timeout" ELSE sess[s].exit]
                   ELSE Failed(sess[s], res)]
    /\ UNCHANGED <<pc, modFound, dmOpen, images, msg, exit, awaits, dispatched,
                   sent, files, exc, textVars, elapsed, cool, evts>>

\* A message event: every pending wait_for whose check returns True
\* returns the message, and its session runs lines 94-111; the other
\* sessions do not see it.
Dispatch(m) ==
    /\ evts < MaxMsgs
    /\ \E s \in Sessions : sess[s].state # "idle"
    /\ evts' = evts + 1
    /\ sess' = [s \in Sessions |->
                   IF /\ sess[s].state = "wait"
                      /\ CheckOf(sess[s].author, DmOf(sess[s].author), m)
                   THEN Received(sess[s], m, evts')
                   ELSE sess[s]]
    /\ UNCHANGED <<pc, modFound, dmOpen, images, msg, exit, awaits, dispatched,
                   sent, files, exc, textVars, elapsed, cool>>

\* The wait_for of one session raises asyncio.TimeoutError: lines 116-121
TwoTimeout(s) ==
    /\ sess[s].state = "wait"
    /\ sess' = [sess EXCEPT ![s] = TimedOutSession(@)]
    /\ UNCHANGED <<pc, modFound, dmOpen, images, msg, exit, awaits, dispatched,
                   sent, files, exc, textVars, elapsed, cool, evts>>

NextTwo ==
    \/ \E s \in Sessions, u \in Authors : Invoke(s, u)
    \/ CoolTick
    \/ \E s \in Sessions, res \in LoopCallResults : AwaitDone(s, res)
    \/ \E m \in TwoMessages : Dispatch(m)
    \/ \E s \in Sessions : TwoTimeout(s)

SpecTwo == InitTwo /\ [][NextTwo]_vars

----------------------------------------------------------------------------
\* sanitize_message on its own: the call of line 45 on every text of Texts,
\* and the function applied once more to its own result.

InitSanitize == InitWith(Texts)

SanitizeAgain ==
    /\ pc = "defer"
    /\ again' = sanitize_message(sanitized)
    /\ pc' = "sanitized_again"
    /\ UNCHANGED <<modFound, dmOpen, images, msg, exit, awaits, dispatched,
                   sent, files, exc, message, sanitized, elapsed, twoVars>>

NextSanitize ==
    \/ Start
    \/ SanitizeAgain

SpecSanitize == InitSanitize /\ [][NextSanitize]_vars

----------------------------------------------------------------------------
\* The vocabulary of the properties.

\* The positions of the calls of one kind in `sent`.
Sends(kind) == {i \in DOMAIN sent : sent[i].kind = kind}
\* The positions of the calls made to the moderation channel.
ModSends == {i \in DOMAIN sent : sent[i].to = "mod"}
\* The positions of the calls that returned: the messages that went out.
Shown(kind) == {i \in Sends(kind) : sent[i].res = "ok"}

\* The delivery of lines 145-151 has run to its end without raising.
DeliveryCompleted == pc = "confirm" \/ Sends("success") # {}

\* The last call made is of this kind, and this step made it.
JustSent(kind) ==
    /\ Len(sent') = Len(sent) + 1
    /\ sent'[Len(sent')].kind = kind

----------------------------------------------------------------------------
\* C1: once the loop has been left by done or by the timeout and the delivery
\* has run without raising, the moderation channel has received exactly one
\* embed (Phase 1), and one bundle of files (Phase 2) exactly when images is
\* not empty; at no time has it been sent more than two messages, nor more
\* than one of either phase.
C1_OneSendPerPhase ==
    /\ Cardinality(ModSends) <= 2
    /\ Cardinality(Sends("embed")) <= 1
    /\ Cardinality(Sends("files")) <= 1
    /\ DeliveryCompleted =>
          /\ exit \in {"done", "timeout"}
          /\ Cardinality(Shown("embed")) = 1
          /\ Cardinality(Shown("files")) = 1 <=> images # <<>>
          /\ Cardinality(Shown("files")) = 0 <=> images = <<>>

\* A report with images, closed by done, delivered in two sends.
C1_Witness ==
    /\ pc = "returned"
    /\ exc = "none"
    /\ exit = "done"
    /\ images # <<>>
    /\ Cardinality(Shown("embed")) = 1
    /\ Cardinality(Shown("files")) = 1

\* C2: while waiting, a returned message whose text is "done" in any case
\* leaves the loop in that step: no send is made for it, images is what it
\* was (the attachments of the message are not collected), and no wait_for is
\* issued then or afterwards.
C2_DoneClosesAtOnce ==
    [][ /\ (pc = "wait" /\ dispatched' = dispatched + 1 /\ Lower(msg'.content) = DoneToken)
           => /\ exit' = "done"
              /\ pc' \notin {"wait", "except_timeout"}
              /\ images' = images
              /\ sent' = sent
              /\ awaits' = awaits
        /\ exit = "done" => (awaits' = awaits /\ pc' # "wait" /\ images' = images) ]_vars

\* done in another case, carrying attachments, with nothing collected before.
C2_Witness ==
    /\ exit = "done"
    /\ msg.content # DoneToken
    /\ msg.attachments # <<>>
    /\ images = <<>>
    /\ dispatched = 1

\* One file for each image, in the order of images.
FilesOf(imgs) == [i \in 1..Len(imgs) |-> [attachment |-> imgs[i]]]

\* C3: when the timeout is handled, the notice is awaited and sent exactly
\* when images is not empty; when the loop has been left by the timeout, the notice comes
\* before every message to the moderation channel, images no longer changes,
\* and what is delivered is images: the embed states its length and the bundle
\* carries its items.
C3_TimeoutExit ==
    /\ [][ /\ (pc # "except_timeout" /\ pc' = "except_timeout") => images # <<>>
           /\ (pc = "except_timeout" /\ pc' # pc) => JustSent("timeout_notice")
           /\ (exit # "timeout" /\ exit' = "timeout")
                => (JustSent("timeout_notice") <=> images # <<>>)
           /\ JustSent("timeout_notice") => (pc = "except_timeout" /\ images # <<>>)
           /\ (pc = "except_timeout" \/ exit = "timeout") => images' = images ]_vars
    /\ [](exit = "timeout" =>
            /\ Cardinality(Sends("timeout_notice")) = (IF images # <<>> THEN 1 ELSE 0)
            /\ \A i \in Sends("timeout_notice"), j \in ModSends : i < j
            /\ \A j \in Sends("embed") : sent[j].n = Len(images)
            /\ \A j \in Sends("files") : sent[j].files = FilesOf(images))

\* Two images, then the timeout: the notice, then both phases.
C3_Witness ==
    /\ exit = "timeout"
    /\ Len(images) = 2
    /\ Cardinality(Shown("timeout_notice")) = 1
    /\ Cardinality(Shown("files")) = 1
    /\ pc = "returned"

\* The acceptable items as the specification words them: the file name ends,
\* whatever its case, in png, jpg, jpeg or gif.
SuffixAllowed(att) ==
    LET name == Lower(Filename(att))
    IN  \E ext \in { <<"p","n","g">>, <<"j","p","g">>, <<"j","p","e","g">>, <<"g","i","f">> } :
            /\ Len(name) >= Len(ext)
            /\ \A k \in 1..Len(ext) : name[Len(name) - Len(ext) + k] = ext[k]

\* The acceptable items of a batch, in arrival order.
AcceptableItems(atts) == SelectSeq(atts, SuffixAllowed)

\* This step is wait_for returning a message to the loop body.
WaitReturned ==
    /\ pc = "wait"
    /\ dispatched' = dispatched + 1
    /\ pc' # "wait"

\* This step is the completion, by return or by exception, of the send
\* that answers the message last returned.
AnswerDone ==
    /\ pc \in {"send_ack", "send_reject"}
    /\ pc' # pc

\* The message returned carries attachments and is not the done message.
AttachmentInput == msg'.attachments # <<>> /\ Lower(msg'.content) # DoneToken

\* C4: when wait_for returns an attachment message with at least one
\* acceptable item, exactly its acceptable items are appended to images in
\* arrival order and the others are dropped; one acknowledgement is sent, and
\* it states the number of items this message added, not the total; once the
\* acknowledgement is out the loop waits again, the session still collecting.
C4_AcceptedBatch ==
    [][ /\ (WaitReturned /\ AttachmentInput /\ AcceptableItems(msg'.attachments) # <<>>)
          => /\ images' = images \o AcceptableItems(msg'.attachments)
             /\ pc' = "send_ack"
             /\ sent' = sent
             /\ exit' = "none"
        /\ (AnswerDone /\ AcceptableItems(msg.attachments) # <<>>)
          => /\ pc = "send_ack"
             /\ images' = images
             /\ JustSent("ack")
             /\ sent'[Len(sent')].to = "dm"
             /\ sent'[Len(sent')].n = Len(AcceptableItems(msg.attachments))
             /\ sent'[Len(sent')].res = "ok"
                   => (pc' = "wait" /\ awaits' = awaits + 1 /\ exit' = "none") ]_vars

\* A mixed batch after a full one: one item acknowledged, three collected.
C4_Witness ==
    /\ pc = "wait"
    /\ Len(images) = 3
    /\ Len(msg.attachments) = 2
    /\ Len(AcceptableItems(msg.attachments)) = 1
    /\ sent[Len(sent)] = DmSend("ack", 1, "ok")

\* C5: when wait_for returns a message with attachments none of which is
\* acceptable, one rejection notice is sent and nothing else, images is left
\* as it was, and once the notice is out the loop waits again; a session of
\* such messages only, closed by done, delivers an embed stating no evidence
\* and no bundle.
C5_RejectedBatch ==
    /\ [][ /\ (WaitReturned /\ AttachmentInput /\ AcceptableItems(msg'.attachments) = <<>>)
             => /\ images' = images
                /\ pc' = "send_reject"
                /\ sent' = sent
                /\ exit' = "none"
           /\ (AnswerDone /\ AcceptableItems(msg.attachments) = <<>>)
             => /\ pc = "send_reject"
                /\ images' = images
                /\ JustSent("reject")
                /\ sent'[Len(sent')].to = "dm"
                /\ sent'[Len(sent')].res = "ok"
                      => (pc' = "wait" /\ awaits' = awaits + 1 /\ exit' = "none") ]_vars
    /\ []((exit = "done" /\ Sends("reject") # {} /\ Sends("ack") = {})
             => /\ images = <<>>
                /\ Sends("files") = {}
                /\ \A j \in Sends("embed") : sent[j].n = 0
                /\ DeliveryCompleted => Cardinality(Shown("embed")) = 1)

\* A rejected batch, then done: the embed alone reaches the moderators.
C5_Witness ==
    /\ pc = "returned"
    /\ exit = "done"
    /\ Shown("reject") # {}
    /\ Shown("embed") # {}
    /\ Sends("files") = {}
    /\ Shown("success") # {}

\* C6: when the moderator channel is not found, the only reply is the
\* configuration error, shown when its ctx.respond returns: create_dm is not
\* called, nothing is sent in a DM or to a moderation channel, and wait_for
\* is never issued.
C6_NoModChannel ==
    ~modFound =>
        /\ pc \in {"start", "defer", "resolved", "returned", "raised"}
        /\ ~dmOpen
        /\ awaits = 0
        /\ \A i \in DOMAIN sent : sent[i].to = "ctx"
        /\ Sends("dm_notice") = {}
        /\ pc = "returned" => sent = <<CtxSend("defer", "ok"), CtxSend("config_error", "ok")>>

\* The command has returned after the configuration error.
C6_Witness == ~modFound /\ pc = "returned" /\ Shown("config_error") # {}

\* create_dm raised discord.Forbidden: the platform denied the private channel.
DmDenied == exc = "forbidden" /\ ~dmOpen

\* C7: when create_dm raises discord.Forbidden, the reporter is shown the
\* permission error once, its ctx.respond returning; wait_for is never issued, nothing is sent to the
\* moderation channel, and neither the confirmation nor the generic failure
\* notice is shown.
C7_DmForbidden ==
    DmDenied =>
        /\ pc \in {"except_forbidden", "returned", "raised"}
        /\ pc = "raised" => Sends("permission_error") # {}
        /\ awaits = 0
        /\ ModSends = {}
        /\ Sends("success") = {}
        /\ Sends("generic_error") = {}
        /\ pc = "returned" => Cardinality(Shown("permission_error")) = 1

\* The command has returned after the permission error.
C7_Witness == DmDenied /\ pc = "returned" /\ Shown("permission_error") # {}

\* A send to the moderation channel raised.
DeliveryFailed == \E j \in ModSends : sent[j].res # "ok"

\* C8: when the send of the embed or of the bundle raises, whatever it
\* raises, the reporter is shown the generic failure notice and no other
\* outcome; the send is not repeated and nothing follows it on the moderation
\* channel.
C8_DeliveryFailureIsGeneric ==
    DeliveryFailed =>
        /\ Sends("success") = {}
        /\ Sends("permission_error") = {}
        /\ pc \in {"except_exception", "returned", "raised"}
        /\ pc \in {"returned", "raised"} => Cardinality(Sends("generic_error")) = 1
        /\ pc = "returned" => Cardinality(Shown("generic_error")) = 1
        /\ Cardinality(Sends("embed")) <= 1
        /\ Cardinality(Sends("files")) <= 1
        /\ \A j \in ModSends : sent[j].res # "ok" => (\A k \in ModSends : k <= j)

\* The last call made was a ctx.defer or ctx.respond that raised.
CtxRaised ==
    /\ sent # <<>>
    /\ sent[Len(sent)].to = "ctx"
    /\ sent[Len(sent)].res # "ok"

\* C9: an exception raised inside the try block for which the code has no
\* handler of its own (neither discord.Forbidden nor the loop's timeout) never
\* leaves the command: the only exception that leaves it is one raised by
\* ctx.defer or ctx.respond, outside the try block.  The generic failure
\* notice is sent for it exactly once, and shown when its ctx.respond
\* returns; neither the confirmation nor the permission error is.
C9_UnexpectedIsCaught ==
    /\ pc = "raised" => CtxRaised
    /\ Cardinality(Sends("generic_error")) <= 1
    /\ exc = "error" =>
          /\ pc \in {"except_exception", "returned", "raised"}
          /\ Shown("success") = {}
          /\ Sends("permission_error") = {}
          /\ pc \in {"returned", "raised"} => Cardinality(Sends("generic_error")) = 1
          /\ pc = "returned" => Cardinality(Shown("generic_error")) = 1
    /\ Sends("generic_error") # {} => exc = "error"

\* An exception in the middle of collection, answered by the generic notice.
C9_Witness ==
    /\ exc = "error"
    /\ pc = "returned"
    /\ images # <<>>
    /\ ModSends = {}
    /\ Shown("generic_error") # {}

\* C10: a confirmation is sent only after the embed went out and, when there
\* are images, after the bundle went out, every send to the moderation
\* channel having returned; the count it states is the number of files of the
\* bundle delivered (none stated when there is no bundle).
C10_ConfirmAfterDelivery ==
    \A k \in Sends("success") :
        /\ \E i \in Shown("embed") : i < k
        /\ \A j \in ModSends : j < k /\ sent[j].res = "ok"
        /\ images # <<>> => \E j \in Shown("files") : j < k /\ sent[k].n = Len(sent[j].files)
        /\ images = <<>> => (Sends("files") = {} /\ sent[k].n = 0)

\* A confirmation stating three images after both phases.
C10_Witness ==
    /\ pc = "returned"
    /\ Shown("success") # {}
    /\ sent[Len(sent)].n = 3
    /\ Cardinality(Shown("files")) = 1


----------------------------------------------------------------------------
\* The session has started: mod_channel found, create_dm returned, and the
\* prompt of lines 69-75 went out.
Started == Shown("prompt") # {}
\* The handler has run to its end, by a return or by falling off line 169.
Finished == pc = "returned"

\* C12: when the handler of a started session has finished, the moderation
\* channel has received the embed of the report (Phase 1), whatever the
\* session met on its way: silence, rejected attachments, a close after some
\* images, or a send to the reporter inside the loop that raised.  A send of
\* the embed that itself raised is the case of C8 and is left out.
C12_RecordAlwaysDelivered ==
    (Started /\ Finished /\ Sends("embed") \subseteq Shown("embed"))
        => Shown("embed") # {}


----------------------------------------------------------------------------
\* The phases of a session: COLLECTING while a wait_for is pending or the
\* answer to an input is being sent, CLOSED once the loop has been left by a
\* break (lines 95 and 121).
Collecting == pc \in {"wait", "send_reject", "send_ack"}
Closed == exit # "none"
\* s is t with nothing or something appended.
IsPrefix(s, t) == Len(s) <= Len(t) /\ SubSeq(t, 1, Len(s)) = s

\* C14: images changes only while the session is COLLECTING and only by
\* appending at its end, and once the session is CLOSED neither images nor
\* the exit ever changes, no wait_for is issued again, and no acknowledgement
\* or rejection is sent.
C14_AppendOnlyThenFrozen ==
    [][ /\ images' # images => (Collecting /\ IsPrefix(images, images'))
        /\ Closed => /\ images' = images
                     /\ exit' = exit
                     /\ ~Collecting'
                     /\ ~JustSent("ack")
                     /\ ~JustSent("reject") ]_vars

\* Two batches were appended one after the other, then the session closed
\* and the handler ran to its end.
C14_Witness ==
    /\ Finished
    /\ Closed
    /\ Cardinality(Shown("ack")) = 2
    /\ Len(images) >= 2


----------------------------------------------------------------------------
\* The sum of the counts stated by the first k calls that are
\* acknowledgements: the number of images taken over all the inputs.
RECURSIVE AckTotal(_)
AckTotal(k) ==
    IF k = 0 THEN 0
    ELSE AckTotal(k - 1) + (IF sent[k].kind = "ack" THEN sent[k].n ELSE 0)

\* The images of the input whose acknowledgement (line 111) is awaited:
\* line 110 has extended images, the call is not in sent yet.
Pending == IF pc = "send_ack" THEN Len(ValidImages(msg.attachments)) ELSE 0

\* C15: what the moderation channel is sent is images as it stood when the
\* loop was left: the embed states Len(images), the bundle holds one file
\* per image, the k-th file made from the k-th image, and images holds as
\* many items as the acknowledgements counted over all the inputs.
C15_DeliveredIsSnapshot ==
    /\ \A i \in Sends("embed") :
          /\ Closed
          /\ sent[i].n = Len(images)
    /\ \A i \in Sends("files") :
          /\ Closed
          /\ Len(sent[i].files) = Len(images)
          /\ \A k \in 1..Len(images) : sent[i].files[k].attachment = images[k]
    /\ Len(images) = AckTotal(Len(sent)) + Pending

\* Two different images collected over two inputs and both phases received.
C15_Witness ==
    /\ Shown("embed") # {}
    /\ Shown("files") # {}
    /\ Cardinality(Sends("ack")) = 2
    /\ Len(images) = 2
    /\ images[1] # images[2]


----------------------------------------------------------------------------
\* C17: no call is made to the moderation channel while a wait_for is
\* pending; the bundle (Phase 2) is sent only after an embed (Phase 1) whose
\* send returned; and after an embed whose send raised no bundle is sent.
C17_OrderedDelivery ==
    /\ Collecting => ModSends = {}
    /\ \A j \in Sends("files") :
          \E i \in Shown("embed") : i < j
    /\ \A i \in Sends("embed") :
          sent[i].res # "ok" => Sends("files") = {}

\* The embed was sent and its send raised: the handler has finished and no
\* bundle was sent, though images were collected.
C17_Witness ==
    /\ Finished
    /\ images # <<>>
    /\ Sends("embed") # {}
    /\ Shown("embed") = {}


----------------------------------------------------------------------------
\* The messages that tell the reporter how the invocation ended.
OutcomeKinds == {"config_error", "permission_error", "generic_error", "success"}
OutcomesShown == UNION {Shown(kind) : kind \in OutcomeKinds}
\* The moderation channel holds the whole report: the embed, and the bundle
\* when images were collected.
ReportDelivered ==
    /\ Shown("embed") # {}
    /\ images # <<>> => Shown("files") # {}

\* C20: the reporter is shown at most one of the four outcome messages, and
\* the generic error is shown only when the moderation channel did not
\* receive the whole report; a confirmation whose send raises after a whole
\* delivery is not followed by the generic error.
C20_OneOutcomeFailureOnlyIfUndelivered ==
    /\ Cardinality(OutcomesShown) <= 1
    /\ Shown("generic_error") # {} => ~ReportDelivered


----------------------------------------------------------------------------
\* C19: a started session whose reporter sends finitely many attachment
\* messages reaches CLOSED and then an outcome message; the part that a
\* finite run can refute: when the handler of a started session has
\* finished, the loop was left by a break and the reporter has been shown
\* the confirmation or an error.
C19_ClosesThenOutcome ==
    (Started /\ Finished) =>
        /\ Closed
        /\ OutcomesShown # {}


----------------------------------------------------------------------------
\* The mentions of a text, by position.

\* tok occurs in s at position i, whatever the case of the letters.
TokenAt(s, i, tok) ==
    /\ i + Len(tok) - 1 <= Len(s)
    /\ Lower(SubSeq(s, i, i + Len(tok) - 1)) = tok
MentionAt(s, i) == TokenAt(s, i, EveryoneToken) \/ TokenAt(s, i, HereToken)
\* Position i lies inside an occurrence that starts before it.
InsideMention(s, i) ==
    \E j \in 1..(i - 1) :
        \/ TokenAt(s, j, EveryoneToken) /\ i < j + Len(EveryoneToken)
        \/ TokenAt(s, j, HereToken) /\ i < j + Len(HereToken)
NoMention(s) == \A i \in 1..Len(s) : ~MentionAt(s, i)

\* s from position i on, each occurrence of a token replaced by its bracketed
\* form and every other character kept, in order.
RECURSIVE Rewritten(_, _)
Rewritten(s, i) ==
    IF i > Len(s) THEN <<>>
    ELSE (IF TokenAt(s, i, EveryoneToken) THEN EveryoneReplacement
          ELSE IF TokenAt(s, i, HereToken) THEN HereReplacement
          ELSE IF InsideMention(s, i) THEN <<>>
          ELSE <<s[i]>>) \o Rewritten(s, i + 1)

\* C13: for every text, sanitize_message returns the text with each
\* occurrence of "@everyone" and "@here", in any case, replaced and every
\* other character kept in order; its result holds no occurrence of either
\* token in any case; and applied to its own result it returns it unchanged.
C13_SanitizeIdempotent ==
    /\ pc # "start" =>
          /\ sanitized = Rewritten(message, 1)
          /\ NoMention(sanitized)
    /\ pc = "sanitized_again" => again = sanitized

\* A text with both tokens in mixed case, one of them put together from two
\* pieces, sanitized twice.
C13_Witness ==
    /\ pc = "sanitized_again"
    /\ message = <<"@","E","v","e","r","y","o","N","e","@","h","e","r","e">>
    /\ sanitized = EveryoneReplacement \o HereReplacement
    /\ again = sanitized


----------------------------------------------------------------------------
\* The texts of the command with their mentions rewritten.
RewrittenText == [t \in RequestTexts |-> Rewritten(t, 1)]

\* C16: the content of every embed sent to the moderation channel is the
\* text of the command with its mentions rewritten, whatever messages the
\* session received; the bundle carries no text; and a text that holds a
\* mention is never sent to the moderation channel as it was given.
C16_OnlySanitizedText ==
    \A i \in ModSends :
        /\ sent[i].kind = "embed" => sent[i].text = RewrittenText[message]
        /\ sent[i].kind = "files" => sent[i].text = <<>>
        /\ message # RewrittenText[message] => sent[i].text # message

\* A report naming both mentions, delivered with its images after an
\* accepted input: the embed carries the bracketed forms.
C16_Witness ==
    /\ message = ReportText
    /\ Cardinality(Shown("ack")) >= 1
    /\ Shown("files") # {}
    /\ \E i \in Shown("embed") :
          sent[i].text = EveryoneReplacement \o <<" ">> \o HereReplacement


----------------------------------------------------------------------------
\* A message event was dispatched for which check returned False: the
\* pending wait_for goes on waiting.
IgnoredStep ==
    /\ dispatched' # dispatched
    /\ pc' = "wait"
    /\ awaits' = awaits

\* This step enters the handler of asyncio.TimeoutError, line 116.
TimeoutTaken ==
    /\ pc # "except_timeout"
    /\ \/ pc' = "except_timeout"
       \/ exit # "timeout" /\ exit' = "timeout"

\* C18: every wait_for issued starts a window of its own at 0, after an
\* accepted and after a rejected input alike; the timeout exit is taken when
\* the window stands at Window, and only then; and a message for which check
\* returns False leaves the window, images, the exit and the calls made as
\* they were.
C18_WindowPerIteration ==
    [][ /\ (pc' = "wait" /\ awaits' # awaits) => elapsed' = 0
        /\ TimeoutTaken => (pc = "wait" /\ elapsed = Window)
        /\ (pc = "wait" /\ elapsed = Window) => TimeoutTaken
        /\ IgnoredStep => /\ elapsed' = elapsed
                          /\ images' = images
                          /\ exit' = exit
                          /\ sent' = sent ]_vars


----------------------------------------------------------------------------
\* What a sequence holds.
Range(q) == {q[i] : i \in DOMAIN q}

\* C11: of two sessions running side by side, started by two users or by
\* one user again after the cooldown, no message event is returned to both
\* and no attachment is held in the images of both.
C11_ConsumedByOneSession ==
    \A s, t \in Sessions :
        s # t => /\ Range(sess[s].taken) \cap Range(sess[t].taken) = {}
                 /\ Range(sess[s].images) \cap Range(sess[t].images) = {}

====
